---- MODULE Spec2Model ----
(***************************************************************************)
(* State-machine model of ecst-vmware.py: the menu controller, the         *)
(* confirmation gate, the request builders of the two VM deployments, the  *)
(* rendering of backend invocations and the handling of their exit status. *)
(*                                                                         *)
(* A string is a sequence of one-character strings, so that strip(),       *)
(* lower() and upper() are computed as Python computes them.  The fixed    *)
(* text of a generated script is abbreviated to one element per statement. *)
(***************************************************************************)
EXTENDS Integers, Sequences, FiniteSets, TLC

VARIABLES
    cfgFile,     \* config.json on disk: "missing", "malformed" or a document
    scripts,     \* the backend script files present in SCRIPT_DIR
    menu,        \* menu state whose handler loop is shown to the operator
    pc,          \* where the process is blocked (or "render", "start", "exited")
    op,          \* the terminal action in progress, "none" between actions
    req,         \* fields collected so far by the request builder
    cfg,         \* document returned by load_config() in this action, or NoDoc
    gate,        \* confirm_action() returned True in this action
    inv,         \* backend invocations made by this action
    call,        \* the invocation being executed, or NoCall
    out,         \* messages printed by this action
    exitKind,    \* how the process ended, "running" before
    exitCode,    \* process exit status, -1 before
    rendered,    \* some menu has been rendered
    inputsRead,  \* some operator input has been read
    disk,        \* config.json as text: whether it exists and its chunks
    loaded,      \* what the last load_config() returned
    config,      \* the argument of the last save_config(config)
    spc,         \* where a caller of the store is: "idle", "saving", "exited"
    written,     \* chunks json.dump() has written to the open file object
    before       \* config.json as it was when save_config() opened it

\* the state of the console
menuVars == <<cfgFile, scripts, menu, pc, op, req, cfg, gate, inv, call, out,
              exitKind, exitCode, rendered, inputsRead>>

\* the state of load_config() and save_config() seen on their own
storeVars == <<disk, loaded, config, spc, written, before>>

vars == <<menuVars, storeVars>>

----------------------------------------------------------------------------
(* Bounds of the model *)

\* backend exit statuses range over 0..MaxExitCode
MaxExitCode == 2
\* an operator types at most MaxPad blanks before and after an answer
MaxPad == 1

----------------------------------------------------------------------------
(* Strings *)

UpperLetters == <<"A","B","C","D","E","F","G","H","I","J","K","L","M",
                  "N","O","P","Q","R","S","T","U","V","W","X","Y","Z">>
LowerLetters == <<"a","b","c","d","e","f","g","h","i","j","k","l","m",
                  "n","o","p","q","r","s","t","u","v","w","x","y","z">>

IndexIn(c, letters) ==
    IF \E i \in 1..Len(letters) : letters[i] = c
    THEN CHOOSE i \in 1..Len(letters) : letters[i] = c
    ELSE 0

LowerChar(c) ==
    LET i == IndexIn(c, UpperLetters) IN IF i = 0 THEN c ELSE LowerLetters[i]

UpperChar(c) ==
    LET i == IndexIn(c, LowerLetters) IN IF i = 0 THEN c ELSE UpperLetters[i]

\* str.lower()
Lower(s) == [i \in 1..Len(s) |-> LowerChar(s[i])]

\* a choice compared as typed, without upper()
Upper_asTyped(s) == s

\* str.upper()
Upper(s) == [i \in 1..Len(s) |-> UpperChar(s[i])]

Whitespace == {" ", "\t"}

RECURSIVE LStrip(_)
\* str.lstrip()
LStrip(s) ==
    IF s # <<>> /\ Head(s) \in Whitespace THEN LStrip(Tail(s)) ELSE s

RECURSIVE RStrip(_)
\* str.rstrip()
RStrip(s) ==
    IF s # <<>> /\ s[Len(s)] \in Whitespace THEN RStrip(SubSeq(s, 1, Len(s) - 1)) ELSE s

\* str.strip(): drop the leading and the trailing whitespace
Strip(s) == RStrip(LStrip(s))

RECURSIVE Blanks(_)
Blanks(n) == IF n = 0 THEN <<>> ELSE <<" ">> \o Blanks(n - 1)

\* the lines an operator can type for the answers in `cores`
Typed(cores) ==
    {Blanks(l) \o c \o Blanks(r) : l \in 0..MaxPad, r \in 0..MaxPad, c \in cores}

\* whether `part` occurs in `text` as a contiguous run
Occurs(part, text) ==
    \E i \in 1..(Len(text) - Len(part) + 1) :
        SubSeq(text, i, i + Len(part) - 1) = part

\* a get_input() that returns the stripped line whatever the default
get_input_nodefault(line, default) == Strip(line)

\* get_input(prompt, default) applied to the typed line
get_input(line, default) ==
    IF default # <<>>
    THEN (IF Strip(line) # <<>> THEN Strip(line) ELSE default)
    ELSE Strip(line)

\* a confirmation that accepts every answer starting with "y"
confirm_action_prefix(line) ==
    LET response == Lower(Strip(line)) IN response # <<>> /\ response[1] = "y"

\* confirm_action(message) applied to the typed line
confirm_action(line) ==
    Lower(Strip(line)) \in {<<"y">>, <<"y","e","s">>}

----------------------------------------------------------------------------
(* Catalogs *)

\* a template catalog in which selectors "1" and "2" carry each other's template
VM_TEMPLATES_swapped ==
    [k \in {<<"1">>, <<"2">>, <<"3">>, <<"4">>, <<"5">>, <<"6">>} |->
        CASE k = <<"1">> -> [name |-> "Splunk", template |-> <<"template-cribl-stream">>]
          [] k = <<"2">> -> [name |-> "Cribl", template |-> <<"template-splunk-enterprise">>]
          [] k = <<"3">> -> [name |-> "Forescout", template |-> <<"template-forescout">>]
          [] k = <<"4">> -> [name |-> "Windows Server", template |-> <<"template-windows-2022">>]
          [] k = <<"5">> -> [name |-> "RHEL 9", template |-> <<"template-rhel9">>]
          [] k = <<"6">> -> [name |-> "Ubuntu 22.04", template |-> <<"template-ubuntu-2204">>]]

VM_TEMPLATES ==
    [k \in {<<"1">>, <<"2">>, <<"3">>, <<"4">>, <<"5">>, <<"6">>} |->
        CASE k = <<"1">> -> [name |-> "Splunk", template |-> <<"template-splunk-enterprise">>]
          [] k = <<"2">> -> [name |-> "Cribl", template |-> <<"template-cribl-stream">>]
          [] k = <<"3">> -> [name |-> "Forescout", template |-> <<"template-forescout">>]
          [] k = <<"4">> -> [name |-> "Windows Server", template |-> <<"template-windows-2022">>]
          [] k = <<"5">> -> [name |-> "RHEL 9", template |-> <<"template-rhel9">>]
          [] k = <<"6">> -> [name |-> "Ubuntu 22.04", template |-> <<"template-ubuntu-2204">>]]

SizeSmall  == <<"S","m","a","l","l">>
SizeMedium == <<"M","e","d","i","u","m">>
SizeLarge  == <<"L","a","r","g","e">>
SizeXLarge == <<"X","L","a","r","g","e">>

\* a size catalog whose Medium entry carries the numbers of Large
VM_SIZES_shifted ==
    [k \in {SizeSmall, SizeMedium, SizeLarge, SizeXLarge} |->
        CASE k = SizeSmall  -> [cpu |-> 2,  memory_gb |-> 4,  disk_gb |-> 50]
          [] k = SizeMedium -> [cpu |-> 8,  memory_gb |-> 16, disk_gb |-> 200]
          [] k = SizeLarge  -> [cpu |-> 8,  memory_gb |-> 16, disk_gb |-> 200]
          [] k = SizeXLarge -> [cpu |-> 16, memory_gb |-> 32, disk_gb |-> 500]]

VM_SIZES ==
    [k \in {SizeSmall, SizeMedium, SizeLarge, SizeXLarge} |->
        CASE k = SizeSmall  -> [cpu |-> 2,  memory_gb |-> 4,  disk_gb |-> 50]
          [] k = SizeMedium -> [cpu |-> 4,  memory_gb |-> 8,  disk_gb |-> 100]
          [] k = SizeLarge  -> [cpu |-> 8,  memory_gb |-> 16, disk_gb |-> 200]
          [] k = SizeXLarge -> [cpu |-> 16, memory_gb |-> 32, disk_gb |-> 500]]

OS_TYPES ==
    [k \in {<<"1">>, <<"2">>, <<"3">>, <<"4">>, <<"5">>} |->
        CASE k = <<"1">> -> [name |-> "RHEL", guest_id |-> <<"rhel9_64Guest">>]
          [] k = <<"2">> -> [name |-> "Ubuntu", guest_id |-> <<"ubuntu64Guest">>]
          [] k = <<"3">> -> [name |-> "Windows", guest_id |-> <<"windows2019srv_64Guest">>]
          [] k = <<"4">> -> [name |-> "CentOS", guest_id |-> <<"centos9_64Guest">>]
          [] k = <<"5">> -> [name |-> "Debian", guest_id |-> <<"debian11_64Guest">>]]

----------------------------------------------------------------------------
(* The configuration document and the script directory *)

\* the parts of the document that the operations read
Fields ==
    {"environment.name", "vcenter.server", "vcenter.vcsa", "datacenter.name",
     "cluster.name", "cluster.ha", "cluster.drs", "esxiHosts",
     "networking.vds", "networking.portGroups", "networking.vmotionTcpIpStack",
     "storage.vsan", "services", "security"}

File(state, server, cluster, absent) ==
    [state |-> state, server |-> server, cluster |-> cluster, absent |-> absent]

FileMissing   == File("missing", <<>>, <<>>, {})
FileMalformed == File("malformed", <<>>, <<>>, {})
NoCfg         == File("none", <<>>, <<>>, {})

\* the documents config.json holds in the model: two complete ones that differ
\* in their values, and one that lacks a part deploy_cluster() reads
Documents ==
    {File("ok", <<"v","c","1">>, <<"c","l","1">>, {}),
     File("ok", <<"v","c","2">>, <<"c","l","2">>, {}),
     File("ok", <<"v","c","1">>, <<"c","l","1">>, {"cluster.ha"})}

CfgFiles == {FileMissing, FileMalformed} \cup Documents

ScriptFiles == {"Deploy-VCSA.ps1", "Deploy-Infrastructure.ps1"}

\* load_config() followed by the subscripts `reads`: what happens
LoadResult(reads) ==
    CASE cfgFile.state = "missing"   -> "ConfigurationMissing"
      [] cfgFile.state = "malformed" -> "ConfigurationMalformed"
      [] reads \cap cfgFile.absent # {} -> "KeyError"
      [] OTHER -> "ok"

----------------------------------------------------------------------------
(* Messages *)

Msg(kind, id, code) == [kind |-> kind, id |-> id, code |-> code]
Err(id)  == Msg("error", id, -1)
Warn(id) == Msg("warning", id, -1)
Info(id) == Msg("info", id, -1)
Succ(id) == Msg("success", id, -1)

----------------------------------------------------------------------------
(* Operations *)

MenuStates == {"Main", "Configure", "VMDeploy", "TemplateSelect", "ConfigManagement"}

InfraOps ==
    {"deploy_vcenter", "deploy_infrastructure", "deploy_datacenter", "deploy_cluster",
     "configure_vsan", "configure_vds", "configure_vmotion", "configure_services",
     "configure_security", "configure_all"}
VMOps       == {"deploy_vm_from_template", "deploy_standard_vm"}
GatedOps    == InfraOps \cup VMOps
ReadOnlyOps == {"show_status", "view_configuration", "reload_configuration"}
Ops         == GatedOps \cup ReadOnlyOps

\* deploy_vm_from_template() and deploy_standard_vm() leaving the VM submenu too
Owner_main(o) ==
    CASE o \in {"deploy_vcenter", "deploy_infrastructure", "deploy_datacenter",
                "deploy_cluster", "show_status"} \cup VMOps -> "Main"
      [] o \in {"configure_vsan", "configure_vds", "configure_vmotion",
                "configure_services", "configure_security", "configure_all"} -> "Configure"
      [] o \in {"view_configuration", "reload_configuration"} -> "ConfigManagement"

\* the handler loop an operation returns to
Owner(o) ==
    CASE o \in {"deploy_vcenter", "deploy_infrastructure", "deploy_datacenter",
                "deploy_cluster", "show_status"} -> "Main"
      [] o \in {"configure_vsan", "configure_vds", "configure_vmotion",
                "configure_services", "configure_security", "configure_all"} -> "Configure"
      [] o \in VMOps -> "VMDeploy"
      [] o \in {"view_configuration", "reload_configuration"} -> "ConfigManagement"

\* whether the operation calls load_config() on entry
LoadsOnEntry(o) == o \notin {"configure_all"} \cup VMOps

\* the parts of the document the operation subscripts after loading it
Reads(o) ==
    CASE o = "deploy_vcenter"        -> {"vcenter.vcsa"}
      [] o = "deploy_infrastructure" -> {"datacenter.name", "cluster.name", "esxiHosts",
                                         "networking.vds", "storage.vsan"}
      [] o = "deploy_datacenter"     -> {"datacenter.name"}
      [] o = "deploy_cluster"        -> {"cluster.name", "cluster.ha", "cluster.drs"}
      [] o = "configure_vsan"        -> {"storage.vsan"}
      [] o = "configure_vds"         -> {"networking.vds", "networking.portGroups"}
      [] o = "configure_vmotion"     -> {"networking.vmotionTcpIpStack", "esxiHosts"}
      [] o = "configure_services"    -> {"services"}
      [] o = "configure_security"    -> {"security"}
      [] o \in VMOps                 -> {"vcenter.server", "cluster.name"}
      [] o = "reload_configuration"  -> {"environment.name", "vcenter.server"}
      [] OTHER -> {}

\* display_main_menu() subscripts these
MainMenuReads == {"environment.name", "vcenter.server", "datacenter.name", "cluster.name"}

\* configure_all() invoking its script without asking
FirstStep_ungated(o) ==
    CASE o \in InfraOps \ {"configure_all"} -> "confirm"
      [] o \in {"show_status", "configure_all"} -> "backend"
      [] o = "deploy_vm_from_template" -> "prompt"
      [] o = "deploy_standard_vm" -> "vm_name"
      [] OTHER -> "ack"

\* where the body of an operation first blocks: at its confirmation prompt, at
\* its first field prompt, in its backend invocation or at "Press Enter"
FirstStep(o) ==
    CASE o \in InfraOps -> "confirm"
      [] o = "show_status" -> "backend"
      [] o = "deploy_vm_from_template" -> "prompt"
      [] o = "deploy_standard_vm" -> "vm_name"
      [] OTHER -> "ack"

\* the script file of a script-file-mode operation
ScriptOf(o) ==
    IF o = "deploy_vcenter" THEN "Deploy-VCSA.ps1" ELSE "Deploy-Infrastructure.ps1"

FileModeOps == {"deploy_vcenter", "deploy_infrastructure", "configure_all"}

\* the operations that test script_path.exists() before invoking
ChecksScript(o) == o \in {"deploy_vcenter", "deploy_infrastructure"}

----------------------------------------------------------------------------
(* Rendering of backend invocations *)

Call(mode, script, params, text) ==
    [mode |-> mode, script |-> script, params |-> params, text |-> text]

NoCall == Call("none", "", <<>>, <<>>)

\* run_powershell(script_path, params): -File <script> -<key> <value> ...
FileCall(o) ==
    Call("file", ScriptOf(o),
         IF o = "configure_all"
         THEN <<<<"ConfigPath", "CONFIG_FILE">>, <<"SkipVCSA", "$true">>>>
         ELSE <<<<"ConfigPath", "CONFIG_FILE">>>>,
         <<>>)

\* the domain statements of the inline scripts of the infrastructure operations
Statements(o) ==
    CASE o = "deploy_datacenter"  -> <<". 02-Datacenter.ps1", "New-VsphereDatacenter -Config $config">>
      [] o = "deploy_cluster"     -> <<". 02-Datacenter.ps1", "New-VsphereCluster -Config $config">>
      [] o = "configure_vsan"     -> <<". 05-Storage.ps1", "Enable-VsanCluster -Config $config",
                                       "Configure-VsanDiskGroups -Config $config -AutoClaim">>
      [] o = "configure_vds"      -> <<". 04-Networking.ps1", "New-VsphereVDS -Config $config",
                                       "New-VspherePortGroups -Config $config",
                                       "Add-HostsToVDS -Config $config">>
      [] o = "configure_vmotion"  -> <<". 04-Networking.ps1", "Configure-VMotionStack -Config $config">>
      [] o = "configure_services" -> <<". 06-Configuration.ps1", "Set-HostNtpConfiguration -Config $config",
                                       "Set-HostDnsConfiguration -Config $config",
                                       "Set-HostSyslogConfiguration -Config $config">>
      [] o = "configure_security" -> <<". 06-Configuration.ps1", "Set-HostSecurityConfiguration -Config $config">>
      [] o = "show_status"        -> <<"Connect-VIServer -Server $config.vcenter.server",
                                       "Get-Datacenter", "Get-Cluster", "Get-VMHost",
                                       "Get-Datastore", "Get-VDSwitch">>

\* run_powershell_command(ps_command) of an infrastructure operation
InlineCall(o) ==
    Call("inline", "", <<>>,
         <<". 01-Connect.ps1", "$config = Get-Content CONFIG_FILE", "$cred = Get-Credential">>
         \o Statements(o) \o <<"Disconnect-VIServer">>)

InfraCall(o) == IF o \in FileModeOps THEN FileCall(o) ELSE InlineCall(o)

\* the f-string of deploy_vm_from_template with its values substituted
TemplateScript(r, c) ==
    <<"$cred = Get-Credential", "Connect-VIServer -Server '">> \o c.server
    \o <<"' -Credential $cred", "$template = Get-Template -Name '">>
    \o VM_TEMPLATES[r.template].template
    \o <<"' -ErrorAction Stop", "$cluster = Get-Cluster -Name '">> \o c.cluster
    \o <<"' -ErrorAction Stop", "$datastore = Get-Datastore", "$portGroup = Get-VDPortgroup",
         "$vm = New-VM -Name '">> \o r.vm_name
    \o <<"' -Template $template -ResourcePool $cluster -Datastore $datastore",
         "Set-VM -VM $vm -NumCpu ", ToString(VM_SIZES[r.vm_size].cpu),
         " -MemoryGB ", ToString(VM_SIZES[r.vm_size].memory_gb), " -Confirm:$false",
         "Set-NetworkAdapter -Portgroup $portGroup", "$tag = Get-Tag -Name '">> \o r.tag_name
    \o <<"' -ErrorAction SilentlyContinue", "if ($tag) New-TagAssignment",
         "Write-Host VM '">> \o r.vm_name
    \o <<"' created successfully!", "$powerOn = Read-Host", "Disconnect-VIServer">>

\* the f-string of deploy_standard_vm with its values substituted
StandardScript(r, c) ==
    <<"$cred = Get-Credential", "Connect-VIServer -Server '">> \o c.server
    \o <<"' -Credential $cred", "$cluster = Get-Cluster -Name '">> \o c.cluster
    \o <<"' -ErrorAction Stop", "$datastore = Get-Datastore", "$portGroup = Get-VDPortgroup",
         "Write-Host Creating VM '">> \o r.vm_name
    \o <<"'...", "$vm = New-VM -Name '">> \o r.vm_name
    \o <<"' -ResourcePool $cluster -Datastore $datastore -NumCpu ",
         ToString(VM_SIZES[r.vm_size].cpu),
         " -MemoryGB ", ToString(VM_SIZES[r.vm_size].memory_gb),
         " -DiskGB ", ToString(VM_SIZES[r.vm_size].disk_gb),
         " -DiskStorageFormat Thin -GuestId '">> \o OS_TYPES[r.os_choice].guest_id
    \o <<"' -NetworkName $portGroup.Name", "$tag = Get-Tag -Name '">> \o r.tag_name
    \o <<"' -ErrorAction SilentlyContinue", "if ($tag) New-TagAssignment",
         "Write-Host Tag assigned: ">> \o r.tag_name
    \o <<"else Write-Host Note: Tag '">> \o r.tag_name
    \o <<"' not found", "$vm | Select-Object | Format-Table", "$powerOn = Read-Host",
         "Disconnect-VIServer">>

\* whether the invocation reads config.json itself when it runs: the scripts
\* given -ConfigPath, and the inline scripts that begin with Get-Content
ReadsFileAtRun(c) ==
    \/ c.mode = "file"
    \/ Occurs(<<"$config = Get-Content CONFIG_FILE">>, c.text)

\* the document whose values the invocation works with: the file as it is when
\* the script runs, or the values the console substituted into the script
BackendConfig(c, file, snapshot) == IF ReadsFileAtRun(c) THEN file ELSE snapshot

VMCall(o, r, c) ==
    Call("inline", "", <<>>,
         IF o = "deploy_vm_from_template" THEN TemplateScript(r, c) ELSE StandardScript(r, c))

----------------------------------------------------------------------------
(* Requests *)

EmptyReq ==
    [template |-> <<>>, vm_name |-> <<>>, os_choice |-> <<>>, vm_size |-> <<>>,
     ip_address |-> <<>>, netmask |-> <<>>, gateway |-> <<>>, tag_name |-> <<>>]

DefaultNetmask == <<"2","5","5",".","2","5","5",".","2","5","5",".","0">>
DefaultGateway == <<"1","9","2",".","1","6","8",".","1",".","1">>

\* the default of the size prompt
DefaultSize(o) == IF o = "deploy_vm_from_template" THEN SizeMedium ELSE SizeSmall

----------------------------------------------------------------------------
(* What the operator types *)

MenuAnswers ==
    Typed({<<>>, <<"1">>, <<"2">>, <<"3">>, <<"4">>, <<"5">>, <<"6">>, <<"7">>, <<"8">>,
           <<"b">>, <<"B">>, <<"c">>, <<"C">>, <<"s">>, <<"S">>, <<"q">>, <<"Q">>,
           <<"x">>, <<"1","1">>})

ConfirmAnswers ==
    Typed({<<>>, <<"y">>, <<"Y">>, <<"y","e","s">>, <<"Y","E","S">>, <<"Y","e","s">>,
           <<"n">>, <<"n","o">>, <<"y","e">>, <<"y"," ","e","s">>})

NameAnswers == Typed({<<>>, <<"v","m">>, <<"a","'","b">>})
OsAnswers   == Typed({<<>>, <<"1">>, <<"3">>, <<"5">>, <<"6">>, <<"r","h","e","l">>})
SizeAnswers ==
    Typed({<<>>, SizeSmall, SizeMedium, SizeLarge, SizeXLarge,
           <<"m","e","d","i","u","m">>, <<"M","E","D","I","U","M">>, <<"2">>})
IpAnswers      == Typed({<<>>, <<"1","0",".","0",".","0",".","5">>})
NetmaskAnswers == Typed({<<>>, <<"2","5","5",".","0",".","0",".","0">>})
GatewayAnswers == Typed({<<>>, <<"1","0",".","0",".","0",".","1">>})
TagAnswers     == Typed({<<>>, <<"t","'","g">>})
AckAnswers     == Typed({<<>>, <<"x">>})

----------------------------------------------------------------------------
(* Menu dispatch tables *)

Target(kind, target) == [kind |-> kind, target |-> target]

\* main(): the if/elif chain on the upper-cased choice
MainDispatch(choice) ==
    CASE choice = <<"1">> -> Target("op", "deploy_vcenter")
      [] choice = <<"2">> -> Target("op", "deploy_infrastructure")
      [] choice = <<"3">> -> Target("op", "deploy_datacenter")
      [] choice = <<"4">> -> Target("op", "deploy_cluster")
      [] choice = <<"5">> -> Target("goto", "Configure")
      [] choice = <<"6">> -> Target("goto", "VMDeploy")
      [] choice = <<"C">> -> Target("goto", "ConfigManagement")
      [] choice = <<"S">> -> Target("op", "show_status")
      [] choice = <<"Q">> -> Target("quit", "Main")
      [] OTHER -> Target("invalid", "Main")

\* a configure submenu whose back token leads to the VM submenu
ConfigureDispatch_sideways(choice) ==
    CASE choice = <<"1">> -> Target("op", "configure_vsan")
      [] choice = <<"2">> -> Target("op", "configure_vds")
      [] choice = <<"3">> -> Target("op", "configure_vmotion")
      [] choice = <<"4">> -> Target("op", "configure_services")
      [] choice = <<"5">> -> Target("op", "configure_security")
      [] choice = <<"6">> -> Target("op", "configure_all")
      [] choice = <<"B">> -> Target("back", "VMDeploy")
      [] OTHER -> Target("invalid", "Configure")

\* handle_configure_menu()
ConfigureDispatch(choice) ==
    CASE choice = <<"1">> -> Target("op", "configure_vsan")
      [] choice = <<"2">> -> Target("op", "configure_vds")
      [] choice = <<"3">> -> Target("op", "configure_vmotion")
      [] choice = <<"4">> -> Target("op", "configure_services")
      [] choice = <<"5">> -> Target("op", "configure_security")
      [] choice = <<"6">> -> Target("op", "configure_all")
      [] choice = <<"B">> -> Target("back", "Main")
      [] OTHER -> Target("invalid", "Configure")

\* a VM submenu that also takes the quit token
VMDispatch_quit(choice) ==
    CASE choice = <<"1">> -> Target("op", "deploy_vm_from_template")
      [] choice = <<"2">> -> Target("op", "deploy_standard_vm")
      [] choice = <<"B">> -> Target("back", "Main")
      [] choice = <<"Q">> -> Target("quit", "VMDeploy")
      [] OTHER -> Target("invalid", "VMDeploy")

\* handle_vm_menu()
VMDispatch(choice) ==
    CASE choice = <<"1">> -> Target("op", "deploy_vm_from_template")
      [] choice = <<"2">> -> Target("op", "deploy_standard_vm")
      [] choice = <<"B">> -> Target("back", "Main")
      [] OTHER -> Target("invalid", "VMDeploy")

\* a configuration menu whose edit options are taken for the reload option
ConfigManagementDispatch_edits(choice) ==
    CASE choice = <<"1">> -> Target("op", "view_configuration")
      [] choice = <<"7">> -> Target("op", "reload_configuration")
      [] choice = <<"B">> -> Target("back", "Main")
      [] choice \in {<<"2">>, <<"3">>, <<"4">>, <<"5">>, <<"6">>} ->
            Target("op", "reload_configuration")
      [] OTHER -> Target("invalid", "ConfigManagement")

\* handle_config_management_menu()
ConfigManagementDispatch(choice) ==
    CASE choice = <<"1">> -> Target("op", "view_configuration")
      [] choice = <<"7">> -> Target("op", "reload_configuration")
      [] choice = <<"B">> -> Target("back", "Main")
      [] choice \in {<<"2">>, <<"3">>, <<"4">>, <<"5">>, <<"6">>} ->
            Target("notimpl", "ConfigManagement")
      [] OTHER -> Target("invalid", "ConfigManagement")

Dispatch(m, choice) ==
    CASE m = "Main"             -> MainDispatch(choice)
      [] m = "Configure"        -> ConfigureDispatch(choice)
      [] m = "VMDeploy"         -> VMDispatch(choice)
      [] m = "ConfigManagement" -> ConfigManagementDispatch(choice)

----------------------------------------------------------------------------
(* Reporting *)

\* the cancellation warning of a gated operation
CancelMsg(o) == Warn("cancelled")

\* what load_config() prints before sys.exit(1); a KeyError prints no message
LoadError(r) ==
    CASE r = "ConfigurationMissing"   -> <<Err("config_not_found")>>
      [] r = "ConfigurationMalformed" -> <<Err("invalid_json")>>
      [] OTHER -> <<>>

\* what the operation prints for the exit status of its invocation
Report(o, code) ==
    IF o = "show_status" THEN <<>>
    ELSE IF code = 0 THEN <<Succ("completed")>>
    ELSE <<Msg("error", "failed_with_exit_code", code)>>

----------------------------------------------------------------------------
(* The text of config.json, json.load() and json.dump()                    *)
(*                                                                         *)
(* The console's steps look at config.json through cfgFile, the outcome of *)
(* parsing it.  load_config() and save_config() are also modelled on the   *)
(* text itself: a sequence of chunks, one per JSON token or run of blanks. *)
(* A document is the dict json.load() returns: key/value pairs in          *)
(* insertion order, each key once.                                         *)

\* a document text holds at most MaxPairs members
MaxPairs == 2

Keys   == {"name", "server"}
Values == {"lab", "prod"}
Blank  == {" ", "  ", "\n"}

Docs ==
    {d \in UNION {[1..n -> Keys \X Values] : n \in 0..Cardinality(Keys)} :
        \A i, j \in 1..Len(d) : d[i][1] = d[j][1] => i = j}

OnDisk(exists, text) == [exists |-> exists, text |-> text]
Absent == OnDisk(FALSE, <<>>)

Loaded(state, doc) == [state |-> state, doc |-> doc]
NoLoad == Loaded("none", <<>>)

\* dict[k] = v: a present key keeps its place and takes the new value
SetItem(d, k, v) ==
    IF \E i \in 1..Len(d) : d[i][1] = k
    THEN [i \in 1..Len(d) |-> IF d[i][1] = k THEN <<k, v>> ELSE d[i]]
    ELSE Append(d, <<k, v>>)

RECURSIVE ToDict(_, _)
\* the dict built from the members of an object in the order they are parsed
ToDict(pairs, d) ==
    IF pairs = <<>> THEN d
    ELSE ToDict(Tail(pairs), SetItem(d, Head(pairs)[1], Head(pairs)[2]))

RECURSIVE Members(_)
\* the members between the braces:  key : value ( , key : value )*
Members(t) ==
    IF Len(t) < 3 \/ t[1] \notin Keys \/ t[2] # ":" \/ t[3] \notin Values
    THEN [ok |-> FALSE, pairs |-> <<>>]
    ELSE IF Len(t) = 3
    THEN [ok |-> TRUE, pairs |-> <<<<t[1], t[3]>>>>]
    ELSE IF t[4] # ","
    THEN [ok |-> FALSE, pairs |-> <<>>]
    ELSE LET rest == Members(SubSeq(t, 5, Len(t)))
         IN  [ok |-> rest.ok, pairs |-> <<<<t[1], t[3]>>>> \o rest.pairs]

\* load_config() without its exits: open(CONFIG_FILE, 'r') and json.load(f)
json_load(file) ==
    IF ~file.exists THEN Loaded("missing", <<>>)
    ELSE LET t == SelectSeq(file.text, LAMBDA c : c \notin Blank)
         IN  IF Len(t) < 2 \/ t[1] # "{" \/ t[Len(t)] # "}"
             THEN Loaded("malformed", <<>>)
             ELSE IF Len(t) = 2
             THEN Loaded("ok", <<>>)
             ELSE LET m == Members(SubSeq(t, 2, Len(t) - 1))
                  IN  IF m.ok THEN Loaded("ok", ToDict(m.pairs, <<>>))
                      ELSE Loaded("malformed", <<>>)

RECURSIVE Indented(_)
\* the members as json.dump(indent=2) writes them, one per line
Indented(pairs) ==
    IF pairs = <<>> THEN <<>>
    ELSE <<"\n", "  ", pairs[1][1], ":", " ", pairs[1][2]>>
         \o (IF Len(pairs) > 1 THEN <<",">> ELSE <<>>)
         \o Indented(Tail(pairs))

\* a json.dump() that writes the first member only
json_dump_first(d) ==
    IF d = <<>> THEN <<"{", "}">>
    ELSE <<"{">> \o Indented(<<d[1]>>) \o <<"\n", "}">>

\* the chunks json.dump(config, f, indent=2) writes
json_dump(d) ==
    IF d = <<>> THEN <<"{", "}">>
    ELSE <<"{">> \o Indented(d) \o <<"\n", "}">>

RECURSIVE Packed(_)
\* the members written without blanks
Packed(pairs) ==
    IF pairs = <<>> THEN <<>>
    ELSE <<pairs[1][1], ":", pairs[1][2]>>
         \o (IF Len(pairs) > 1 THEN <<",">> ELSE <<>>)
         \o Packed(Tail(pairs))

\* the texts config.json starts with: objects of up to MaxPairs members, a key
\* possibly repeated, written by hand without blanks or one member per line,
\* and texts that are no JSON document
Texts ==
    LET lists == UNION {[1..n -> Keys \X Values] : n \in 0..MaxPairs}
    IN  {<<"{">> \o Packed(l) \o <<"}">> : l \in lists}
        \cup {<<"{">> \o Indented(l) \o <<"\n", "}">> : l \in lists}
        \cup {<<>>, <<"{">>, <<"{", "name", ":">>, <<"{", "name", ":", "lab", ",", "}">>}

DiskFiles == {Absent} \cup {OnDisk(TRUE, t) : t \in Texts}

\* no caller of the store is active
StoreIdle ==
    /\ disk = Absent
    /\ loaded = NoLoad
    /\ config = NoLoad
    /\ spc = "idle"
    /\ written = 0
    /\ before = Absent

----------------------------------------------------------------------------
(* Initial state *)

Init ==
    /\ cfgFile \in CfgFiles
    /\ scripts \in SUBSET ScriptFiles
    /\ menu = "None"
    /\ pc = "start"
    /\ op = "none"
    /\ req = EmptyReq
    /\ cfg = NoCfg
    /\ gate = FALSE
    /\ inv = 0
    /\ call = NoCall
    /\ out = <<>>
    /\ exitKind = "running"
    /\ exitCode = -1
    /\ rendered = FALSE
    /\ inputsRead = FALSE
    /\ StoreIdle

----------------------------------------------------------------------------
(* Steps of the process *)

\* the operation returns to the loop of the handler that called it
Returning(o) ==
    /\ menu' = Owner(o)
    /\ pc' = "render"
    /\ req' = EmptyReq
    /\ cfg' = NoCfg
    /\ call' = NoCall

\* a main() that enters the menu loop without the CONFIG_FILE.exists() check
Start_nocheck ==
    /\ pc = "start"
    /\ menu' = "Main"
    /\ pc' = "render"
    /\ UNCHANGED <<cfgFile, scripts, op, req, cfg, gate, inv, call, out,
                   exitKind, exitCode, rendered, inputsRead>>
    /\ UNCHANGED storeVars

\* main() up to the menu loop: the CONFIG_FILE.exists() check
Start ==
    /\ pc = "start"
    /\ IF cfgFile.state = "missing"
       THEN /\ out' = <<Err("config_not_found"), Info("create_config_json")>>
            /\ pc' = "exited"
            /\ exitKind' = "ConfigurationMissing"
            /\ exitCode' = 1
            /\ UNCHANGED menu
       ELSE /\ menu' = "Main"
            /\ pc' = "render"
            /\ UNCHANGED <<out, exitKind, exitCode>>
    /\ UNCHANGED <<cfgFile, scripts, op, req, cfg, gate, inv, call,
                   rendered, inputsRead>>
    /\ UNCHANGED storeVars

\* the display_*_menu() call at the top of a handler loop: clear_screen()
\* wipes what the last action printed, and the next operator action begins
Render ==
    /\ pc = "render"
    /\ rendered' = TRUE
    /\ op' = "none"
    /\ gate' = FALSE
    /\ inv' = 0
    /\ LET r == IF menu = "Main" THEN LoadResult(MainMenuReads) ELSE "ok"
       IN  IF r = "ok"
           THEN /\ pc' = "prompt"
                /\ out' = <<>>
                /\ UNCHANGED <<exitKind, exitCode>>
           ELSE /\ pc' = "exited"
                /\ exitKind' = r
                /\ exitCode' = 1
                /\ out' = LoadError(r)
    /\ UNCHANGED <<cfgFile, scripts, menu, req, cfg, call, inputsRead>>
    /\ UNCHANGED storeVars

\* a line typed at the "Select option" prompt of one of the four handler loops
MenuInput(line) ==
    /\ pc = "prompt"
    /\ menu \in MenuStates \ {"TemplateSelect"}
    /\ LET d == Dispatch(menu, Upper(get_input(line, <<>>)))
       IN  /\ op' = IF d.kind = "op" THEN d.target ELSE "none"
           /\ menu' = IF d.kind \in {"goto", "back"} THEN d.target ELSE menu
           /\ pc' = CASE d.kind = "op" -> "enter"
                      [] d.kind \in {"goto", "back"} -> "render"
                      [] d.kind = "quit" -> "exited"
                      [] OTHER -> "ack"
           /\ out' = CASE d.kind = "quit" -> <<Info("thank_you")>>
                       [] d.kind = "notimpl" -> <<Warn("not_implemented"), Info("edit_config_json")>>
                       [] d.kind = "invalid" -> <<Err("invalid_option")>>
                       [] OTHER -> <<>>
           /\ exitKind' = IF d.kind = "quit" THEN "quit" ELSE exitKind
           /\ exitCode' = IF d.kind = "quit" THEN 0 ELSE exitCode
    /\ req' = EmptyReq
    /\ cfg' = NoCfg
    /\ gate' = FALSE
    /\ inv' = 0
    /\ call' = NoCall
    /\ inputsRead' = TRUE
    /\ UNCHANGED <<cfgFile, scripts, rendered>>
    /\ UNCHANGED storeVars

\* the body of the dispatched operation up to its first prompt or its invocation
EnterOp ==
    /\ pc = "enter"
    /\ LET r   == IF LoadsOnEntry(op) THEN LoadResult(Reads(op)) ELSE "ok"
           pre == IF op = "reload_configuration" THEN <<Info("reloading")>> ELSE <<>>
       IN  IF r # "ok"
           THEN /\ pc' = "exited"
                /\ exitKind' = r
                /\ exitCode' = 1
                /\ out' = out \o pre \o LoadError(r)
                /\ UNCHANGED <<menu, cfg, call, inv, rendered>>
           ELSE /\ cfg' = IF LoadsOnEntry(op) THEN cfgFile ELSE cfg
                /\ pc' = FirstStep(op)
                /\ menu' = IF op = "deploy_vm_from_template" THEN "TemplateSelect" ELSE menu
                /\ rendered' = (rendered \/ op = "deploy_vm_from_template")
                /\ call' = IF FirstStep(op) = "backend" THEN InfraCall(op) ELSE call
                /\ inv' = IF FirstStep(op) = "backend" THEN inv + 1 ELSE inv
                /\ out' = IF op = "reload_configuration"
                          THEN out \o pre \o <<Succ("reloaded")>>
                          ELSE out
                /\ UNCHANGED <<exitKind, exitCode>>
    /\ UNCHANGED <<cfgFile, scripts, op, req, gate, inputsRead>>
    /\ UNCHANGED storeVars


\* a validation failure: print the error and return without invoking
Abort(id) ==
    /\ out' = Append(out, Err(id))
    /\ Returning(op)
    /\ inputsRead' = TRUE
    /\ UNCHANGED <<cfgFile, scripts, op, gate, inv, exitKind, exitCode, rendered>>

\* a prompt's answer is stored in the request and the next prompt follows
Collect(field, value, next) ==
    /\ req' = [req EXCEPT ![field] = value]
    /\ pc' = next
    /\ inputsRead' = TRUE
    /\ UNCHANGED <<cfgFile, scripts, menu, op, cfg, gate, inv, call, out,
                   exitKind, exitCode, rendered>>

\* deploy_vm_from_template(): the "Select template" prompt
TemplateInput(line) ==
    /\ pc = "prompt"
    /\ menu = "TemplateSelect"
    /\ LET choice == Upper(get_input(line, <<>>))
       IN  IF choice = <<"B">>
           THEN /\ Returning(op)
                /\ inputsRead' = TRUE
                /\ UNCHANGED <<cfgFile, scripts, op, gate, inv, out, exitKind, exitCode,
                               rendered>>
           ELSE IF choice \notin DOMAIN VM_TEMPLATES
           THEN /\ out' = Append(out, Err("invalid_template"))
                /\ pc' = "ack"
                /\ inputsRead' = TRUE
                /\ UNCHANGED <<cfgFile, scripts, menu, op, req, cfg, gate, inv, call,
                               exitKind, exitCode, rendered>>
           ELSE Collect("template", choice, "vm_name")
    /\ UNCHANGED storeVars

\* the "Enter VM Name" prompt of both VM deployments
NameInput(line) ==
    /\ pc = "vm_name"
    /\ LET vm_name == get_input(line, <<>>)
       IN  IF vm_name = <<>>
           THEN Abort("vm_name_required")
           ELSE Collect("vm_name", vm_name,
                        IF op = "deploy_standard_vm" THEN "os_choice" ELSE "vm_size")
    /\ UNCHANGED storeVars

\* deploy_standard_vm(): the "Select OS Type" prompt
OsInput(line) ==
    /\ pc = "os_choice"
    /\ LET os_choice == get_input(line, <<"1">>)
       IN  IF os_choice \notin DOMAIN OS_TYPES
           THEN Abort("invalid_os_type")
           ELSE Collect("os_choice", os_choice, "vm_size")
    /\ UNCHANGED storeVars

\* a size prompt that matches the catalog keys without regard to case
SizeInput_anycase(line) ==
    /\ pc = "vm_size"
    /\ LET vm_size == get_input(line, DefaultSize(op))
           keys    == {k \in DOMAIN VM_SIZES : Lower(k) = Lower(vm_size)}
       IN  IF keys = {}
           THEN Abort("invalid_size")
           ELSE Collect("vm_size", CHOOSE k \in keys : TRUE, "ip_address")
    /\ UNCHANGED storeVars

\* the "Enter Size" prompt of both VM deployments
SizeInput(line) ==
    /\ pc = "vm_size"
    /\ LET vm_size == get_input(line, DefaultSize(op))
       IN  IF vm_size \notin DOMAIN VM_SIZES
           THEN Abort("invalid_size")
           ELSE Collect("vm_size", vm_size, "ip_address")
    /\ UNCHANGED storeVars

\* the "Enter IP Address" prompt of both VM deployments
IpInput(line) ==
    /\ pc = "ip_address"
    /\ Collect("ip_address", get_input(line, <<>>),
               IF op = "deploy_vm_from_template" THEN "netmask" ELSE "tag_name")
    /\ UNCHANGED storeVars

\* deploy_vm_from_template(): the "Enter Subnet Mask" prompt
NetmaskInput(line) ==
    /\ pc = "netmask"
    /\ Collect("netmask", get_input(line, DefaultNetmask), "gateway")
    /\ UNCHANGED storeVars

\* deploy_vm_from_template(): the "Enter Gateway" prompt
GatewayInput(line) ==
    /\ pc = "gateway"
    /\ Collect("gateway", get_input(line, DefaultGateway), "tag_name")
    /\ UNCHANGED storeVars

\* the "Enter Tag Name" prompt of both VM deployments; the summary follows
TagInput(line) ==
    /\ pc = "tag_name"
    /\ Collect("tag_name", get_input(line, <<>>), "confirm")
    /\ UNCHANGED storeVars

\* the answer at the confirmation prompt of a gated operation, and what the
\* operation does next: cancel, or render and start its invocation
Confirm(line) ==
    /\ pc = "confirm"
    /\ inputsRead' = TRUE
    /\ LET yes == confirm_action(line)
           r   == IF op \in VMOps THEN LoadResult(Reads(op)) ELSE "ok"
       IN  IF ~yes
           THEN /\ out' = Append(out, CancelMsg(op))
                /\ Returning(op)
                /\ UNCHANGED <<gate, inv, exitKind, exitCode>>
           ELSE IF ChecksScript(op) /\ ScriptOf(op) \notin scripts
           THEN /\ gate' = TRUE
                /\ out' = Append(out, Err("script_not_found"))
                /\ Returning(op)
                /\ UNCHANGED <<inv, exitKind, exitCode>>
           ELSE IF r # "ok"
           THEN /\ gate' = TRUE
                /\ pc' = "exited"
                /\ exitKind' = r
                /\ exitCode' = 1
                /\ out' = out \o LoadError(r)
                /\ req' = EmptyReq
                /\ UNCHANGED <<menu, cfg, call, inv>>
           ELSE /\ gate' = TRUE
                /\ cfg' = IF op \in VMOps THEN cfgFile ELSE cfg
                /\ call' = IF op \in VMOps THEN VMCall(op, req, cfgFile) ELSE InfraCall(op)
                /\ inv' = inv + 1
                /\ pc' = "backend"
                /\ UNCHANGED <<menu, req, out, exitKind, exitCode>>
    /\ UNCHANGED <<cfgFile, scripts, op, rendered>>
    /\ UNCHANGED storeVars

\* an invoker that runs the command once more after a nonzero exit status
BackendReturn_retry(code) ==
    /\ pc = "backend"
    /\ IF code # 0 /\ inv < 2
       THEN /\ inv' = inv + 1
            /\ UNCHANGED <<pc, out, call, req, cfg>>
       ELSE /\ out' = out \o Report(op, code)
            /\ call' = NoCall
            /\ req' = EmptyReq
            /\ cfg' = NoCfg
            /\ pc' = "ack"
            /\ UNCHANGED inv
    /\ UNCHANGED <<cfgFile, scripts, menu, op, gate, exitKind, exitCode,
                   rendered, inputsRead>>
    /\ UNCHANGED storeVars

\* subprocess.run() returns the exit status and the operation reports it;
\* nothing after the report uses the request or the document
BackendReturn(code) ==
    /\ pc = "backend"
    /\ out' = out \o Report(op, code)
    /\ call' = NoCall
    /\ req' = EmptyReq
    /\ cfg' = NoCfg
    /\ pc' = "ack"
    /\ UNCHANGED <<cfgFile, scripts, menu, op, gate, inv, exitKind, exitCode,
                   rendered, inputsRead>>
    /\ UNCHANGED storeVars

\* subprocess.run() raises FileNotFoundError: powershell.exe is not on the path
BackendLaunchFails ==
    /\ pc = "backend"
    /\ call' = NoCall
    /\ pc' = "exited"
    /\ exitKind' = "FileNotFoundError"
    /\ exitCode' = 1
    /\ req' = EmptyReq
    /\ cfg' = NoCfg
    /\ UNCHANGED <<cfgFile, scripts, menu, op, gate, inv, out, rendered, inputsRead>>
    /\ UNCHANGED storeVars

\* input("Press Enter to continue..."), then the return to the handler loop
Ack(line) ==
    /\ pc = "ack"
    /\ menu' = IF op = "none" THEN menu ELSE Owner(op)
    /\ pc' = "render"
    /\ req' = EmptyReq
    /\ cfg' = NoCfg
    /\ call' = NoCall
    /\ inputsRead' = TRUE
    /\ UNCHANGED <<cfgFile, scripts, op, gate, inv, out, exitKind, exitCode,
                   rendered>>
    /\ UNCHANGED storeVars

\* the places where the process waits for a line from the operator
InputPrompts ==
    {"prompt", "confirm", "vm_name", "os_choice", "vm_size", "ip_address",
     "netmask", "gateway", "tag_name", "ack"}

\* an interrupt that unwinds to main() while the child process keeps running
Interrupt_detached ==
    /\ pc \in InputPrompts \cup {"backend"}
    /\ out' = Append(out, Warn("cancelled_by_user"))
    /\ pc' = "exitprompt"
    /\ req' = EmptyReq
    /\ cfg' = NoCfg
    /\ UNCHANGED <<cfgFile, scripts, menu, op, gate, inv, call, exitKind, exitCode,
                   rendered, inputsRead>>
    /\ UNCHANGED storeVars

\* an interrupt handler that keeps the request under construction
Interrupt_keeps ==
    /\ pc \in InputPrompts \cup {"backend"}
    /\ out' = Append(out, Warn("cancelled_by_user"))
    /\ pc' = "exitprompt"
    /\ call' = NoCall
    /\ UNCHANGED <<cfgFile, scripts, menu, op, req, cfg, gate, inv, exitKind, exitCode,
                   rendered, inputsRead>>
    /\ UNCHANGED storeVars

\* KeyboardInterrupt inside the try block of main(): the stack unwinds to the
\* handler, which prints a warning and asks whether to exit
Interrupt ==
    /\ pc \in InputPrompts \cup {"backend"}
    /\ out' = Append(out, Warn("cancelled_by_user"))
    /\ pc' = "exitprompt"
    /\ req' = EmptyReq
    /\ cfg' = NoCfg
    /\ call' = NoCall
    /\ UNCHANGED <<cfgFile, scripts, menu, op, gate, inv, exitKind, exitCode,
                   rendered, inputsRead>>
    /\ UNCHANGED storeVars

\* the answer to "Do you want to exit?" in the handler of main()
ExitAnswer(line) ==
    /\ pc = "exitprompt"
    /\ inputsRead' = TRUE
    /\ IF confirm_action(line)
       THEN /\ pc' = "exited"
            /\ exitKind' = "interrupt_exit"
            /\ exitCode' = 0
            /\ UNCHANGED menu
       ELSE /\ menu' = "Main"
            /\ pc' = "render"
            /\ UNCHANGED <<exitKind, exitCode>>
    /\ UNCHANGED <<cfgFile, scripts, op, req, cfg, gate, inv, call, out,
                   rendered>>
    /\ UNCHANGED storeVars

\* KeyboardInterrupt while the handler itself waits: nothing catches it
InterruptAtExitPrompt ==
    /\ pc = "exitprompt"
    /\ pc' = "exited"
    /\ exitKind' = "KeyboardInterrupt"
    /\ exitCode' = 130
    /\ UNCHANGED <<cfgFile, scripts, menu, op, req, cfg, gate, inv, call, out,
                   rendered, inputsRead>>
    /\ UNCHANGED storeVars

\* input() raises EOFError at end of input: nothing catches it and the
\* process, with the request it was building, is gone
EndOfInput ==
    /\ pc \in InputPrompts \cup {"exitprompt"}
    /\ pc' = "exited"
    /\ exitKind' = "EOFError"
    /\ exitCode' = 1
    /\ req' = EmptyReq
    /\ cfg' = NoCfg
    /\ call' = NoCall
    /\ UNCHANGED <<cfgFile, scripts, menu, op, gate, inv, out, rendered, inputsRead>>
    /\ UNCHANGED storeVars

\* another process rewrites, damages or removes config.json
ExternalEdit(f) ==
    /\ pc \notin {"start", "exited"}
    /\ f # cfgFile
    /\ cfgFile' = f
    /\ UNCHANGED <<scripts, menu, pc, op, req, cfg, gate, inv, call, out,
                   exitKind, exitCode, rendered, inputsRead>>
    /\ UNCHANGED storeVars

\* one step, with the VM request prompts answered from the given sets of lines
Step(names, oss, sizes, ips, netmasks, gateways, tags) ==
    \/ Start
    \/ Render
    \/ \E line \in MenuAnswers : MenuInput(line)
    \/ EnterOp
    \/ \E line \in MenuAnswers : TemplateInput(line)
    \/ \E line \in names : NameInput(line)
    \/ \E line \in oss : OsInput(line)
    \/ \E line \in sizes : SizeInput(line)
    \/ \E line \in ips : IpInput(line)
    \/ \E line \in netmasks : NetmaskInput(line)
    \/ \E line \in gateways : GatewayInput(line)
    \/ \E line \in tags : TagInput(line)
    \/ \E line \in ConfirmAnswers : Confirm(line)
    \/ \E code \in 0..MaxExitCode : BackendReturn(code)
    \/ BackendLaunchFails
    \/ \E line \in AckAnswers : Ack(line)
    \/ Interrupt
    \/ \E line \in ConfirmAnswers : ExitAnswer(line)
    \/ InterruptAtExitPrompt
    \/ EndOfInput
    \/ \E f \in CfgFiles : ExternalEdit(f)

Next ==
    Step(NameAnswers, OsAnswers, SizeAnswers, IpAnswers, NetmaskAnswers,
         GatewayAnswers, TagAnswers)

Spec == Init /\ [][Next]_vars

\* the same process with one fixed VM request, for the properties that
\* quantify over every answer at the confirmation prompt
NextGate ==
    Step({<<"v","m">>}, {<<>>}, {<<>>}, IpAnswers, {<<>>}, {<<>>}, {<<"t","'","g">>})

SpecGate == Init /\ [][NextGate]_vars

----------------------------------------------------------------------------
(* load_config() and save_config() on the text of config.json *)

\* the console has not been started
ConsoleIdle ==
    /\ cfgFile = FileMissing
    /\ scripts = {}
    /\ menu = "None"
    /\ pc = "start"
    /\ op = "none"
    /\ req = EmptyReq
    /\ cfg = NoCfg
    /\ gate = FALSE
    /\ inv = 0
    /\ call = NoCall
    /\ out = <<>>
    /\ exitKind = "running"
    /\ exitCode = -1
    /\ rendered = FALSE
    /\ inputsRead = FALSE

InitStore ==
    /\ ConsoleIdle
    /\ disk \in DiskFiles
    /\ loaded = NoLoad
    /\ config = NoLoad
    /\ spc = "idle"
    /\ written = 0
    /\ before = disk

\* load_config(): the document, or sys.exit(1) after the error message
load_config ==
    /\ spc = "idle"
    /\ loaded' = json_load(disk)
    /\ spc' = IF json_load(disk).state = "ok" THEN "idle" ELSE "exited"
    /\ UNCHANGED <<disk, config, written, before>>
    /\ UNCHANGED menuVars

\* save_config(config): open(CONFIG_FILE, 'w') creates or truncates the file
save_open(d) ==
    /\ spc = "idle"
    /\ config' = Loaded("ok", d)
    /\ before' = disk
    /\ disk' = OnDisk(TRUE, <<>>)
    /\ written' = 0
    /\ spc' = "saving"
    /\ UNCHANGED loaded
    /\ UNCHANGED menuVars

\* json.dump() hands the next chunk to the file object, which buffers it until
\* the file is closed
save_write ==
    /\ spc = "saving"
    /\ written < Len(json_dump(config.doc))
    /\ written' = written + 1
    /\ UNCHANGED <<disk, loaded, config, spc, before>>
    /\ UNCHANGED menuVars

\* the end of the with block: the file is flushed and closed
save_close ==
    /\ spc = "saving"
    /\ written = Len(json_dump(config.doc))
    /\ disk' = OnDisk(TRUE, json_dump(config.doc))
    /\ spc' = "idle"
    /\ UNCHANGED <<loaded, config, written, before>>
    /\ UNCHANGED menuVars

\* KeyboardInterrupt inside json.dump(): the with block closes the file with
\* what was written so far, and the exception goes to the caller
save_interrupt ==
    /\ spc = "saving"
    /\ written < Len(json_dump(config.doc))
    /\ disk' = OnDisk(TRUE, SubSeq(json_dump(config.doc), 1, written))
    /\ spc' = "idle"
    /\ UNCHANGED <<loaded, config, written, before>>
    /\ UNCHANGED menuVars

NextStore ==
    \/ load_config
    \/ \E d \in Docs : save_open(d)
    \/ save_write
    \/ save_close
    \/ save_interrupt

SpecStore == InitStore /\ [][NextStore]_vars

----------------------------------------------------------------------------
(* Properties *)

Last(q) == q[Len(q)]

Printed(m) == \E i \in 1..Len(out) : out[i] = m

\* an explicit affirmative: "y" or "yes" in any case, between blanks
AffirmativeForms ==
    {<<"y">>, <<"Y">>}
    \cup {<<a, b, c>> : a \in {"y", "Y"}, b \in {"e", "E"}, c \in {"s", "S"}}

IsAffirmative(line) ==
    \E l \in 0..Len(line), r \in 0..Len(line), f \in AffirmativeForms :
        line = Blanks(l) \o f \o Blanks(r)

\* the answers of the model that are not an explicit affirmative
DecliningAnswers == {line \in ConfirmAnswers : ~IsAffirmative(line)}

TwelveGated ==
    {"deploy_vcenter", "deploy_infrastructure", "deploy_datacenter", "deploy_cluster",
     "configure_vsan", "configure_vds", "configure_vmotion", "configure_services",
     "configure_security", "configure_all", "deploy_vm_from_template",
     "deploy_standard_vm"}

\* C1: at the confirmation prompt of each of the twelve gated operations, every
\* answer that is not "y" or "yes" (trimmed, in any case) ends the action with
\* no backend invocation and with the cancellation warning printed last.
C1_DeclineMakesNoInvocation ==
    [][pc = "confirm"
          => \A line \in DecliningAnswers :
                Confirm(line)
                => /\ op \in TwelveGated
                   /\ inv' = 0
                   /\ call' = NoCall
                   /\ pc' = "render"
                   /\ Last(out') = Warn("cancelled")]_vars

C1_Witness ==
    /\ pc = "render"
    /\ op = "configure_all"
    /\ ~gate
    /\ inv = 0
    /\ out = <<Warn("cancelled")>>

\* C2: whenever a backend invocation has been made or is running, the action
\* is the status query or a gated operation whose confirmation was answered
\* affirmatively; and a gated operation reports success only after the gate.
C2_InvocationBehindGate ==
    /\ (inv > 0 \/ pc = "backend" \/ call # NoCall)
          => (op = "show_status" \/ (op \in TwelveGated /\ gate))
    /\ (op \in TwelveGated /\ Printed(Succ("completed"))) => gate

C2_Witness ==
    /\ pc = "backend"
    /\ op = "deploy_standard_vm"
    /\ gate
    /\ inv = 1

\* C3: a VM deployment whose VM name, IP address or tag name is empty makes no
\* backend invocation (stated as in the claim; the code violates it).
C3_EmptyFieldMakesNoInvocation ==
    (op \in VMOps /\ (pc = "backend" \/ inv > 0))
        => /\ req.vm_name # <<>>
           /\ req.ip_address # <<>>
           /\ req.tag_name # <<>>

\* the error of an unrecognised token is on the screen, waiting for Enter
InvalidTokenShown ==
    /\ pc = "ack"
    /\ out # <<>>
    /\ Last(out) \in {Err("invalid_option"), Err("invalid_template")}

\* C4: after an unrecognised token the controller stays in the menu state it
\* was in (stated as in the claim; the code violates it in TemplateSelect).
C4_InvalidTokenKeepsState ==
    [][InvalidTokenShown => (menu' = menu /\ inv' = 0)]_vars

\* the ways an error inside an operation can end the process
OperationErrors ==
    {"ConfigurationMissing", "ConfigurationMalformed", "KeyError", "FileNotFoundError"}

\* C5: once the menu loop has read operator input, no error inside an operation
\* ends the process (stated as in the claim; the code violates it).
C5_OperationErrorKeepsLoop ==
    (pc = "exited" /\ inputsRead) => exitKind \notin OperationErrors

\* C6: when an invocation has returned, the operation has printed a success
\* message or an error carrying the exit code (stated as in the claim; the
\* status query violates it).
C6_ExitStatusReported ==
    (pc = "ack" /\ inv > 0)
        => \E i \in 1..Len(out) :
              \/ out[i].kind = "success"
              \/ (out[i].kind = "error" /\ out[i].code > 0)

HasQuote(str) == \E i \in 1..Len(str) : str[i] \in {"'", "\""}

\* C7: a VM name or tag name holding a quote character does not occur verbatim
\* in the generated script (stated as in the claim; the code violates it).
C7_QuoteNeverVerbatim ==
    (pc = "backend" /\ op \in VMOps /\ call.mode = "inline")
        => \A f \in {"vm_name", "tag_name"} :
              HasQuote(req[f]) => ~Occurs(req[f], call.text)

\* C8: when config.json is absent at process start, the first step ends the
\* process with status 1 and the not-found message, no menu rendered, no
\* operator input read and no backend invocation made.
C8_MissingConfigAtStart ==
    [][(pc = "start" /\ cfgFile.state = "missing")
          => /\ pc' = "exited"
             /\ exitCode' = 1
             /\ out'[1] = Err("config_not_found")
             /\ ~rendered'
             /\ ~inputsRead'
             /\ inv' = 0
             /\ call' = NoCall
             /\ menu' \notin MenuStates]_vars

C8_Witness ==
    /\ pc = "exited"
    /\ exitKind = "ConfigurationMissing"
    /\ exitCode = 1
    /\ menu = "None"
    /\ ~rendered
    /\ ~inputsRead

\* the ways the operator quits: the quit token, or "y" at the exit prompt
QuitExits == {"quit", "interrupt_exit"}

\* C9 as first stated: the operator quits the process only while the
\* controller is in Main (the exit prompt after an interrupt violates it).
C9_OperatorExitOnlyInMain ==
    (pc = "exited" /\ exitKind \in QuitExits) => menu = "Main"

\* C9, amended: the quit token ends the process only when it is read at the
\* menu prompt of Main; in every other menu state the only way to quit is an
\* affirmative answer at the exit prompt that follows an interrupt.
C9_QuitOnlyInMain ==
    [][/\ (exitKind # "quit" /\ exitKind' = "quit")
            => (menu = "Main" /\ pc = "prompt" /\ exitCode' = 0)
       /\ (exitKind # "interrupt_exit" /\ exitKind' = "interrupt_exit")
            => (pc = "exitprompt" /\ Printed(Warn("cancelled_by_user")))
       /\ (menu # "Main" /\ pc \in InputPrompts /\ pc' = "exited")
            => exitKind' \notin QuitExits]_vars

C9_Witness ==
    /\ pc = "exited"
    /\ exitKind = "quit"
    /\ exitCode = 0
    /\ menu = "Main"

\* the menu each terminal action belongs to
OwningMenu(o) ==
    CASE o \in {"deploy_vcenter", "deploy_infrastructure", "deploy_datacenter",
                "deploy_cluster", "show_status"} -> "Main"
      [] o \in {"configure_vsan", "configure_vds", "configure_vmotion",
                "configure_services", "configure_security", "configure_all"} -> "Configure"
      [] o \in {"deploy_vm_from_template", "deploy_standard_vm"} -> "VMDeploy"
      [] o \in {"view_configuration", "reload_configuration"} -> "ConfigManagement"

\* the outcomes of a terminal action that the claim lists
OutcomeMessages ==
    {Succ("completed"), Warn("cancelled"), Err("vm_name_required"),
     Err("invalid_size"), Err("invalid_os_type"), Err("invalid_template")}
    \cup {Msg("error", "failed_with_exit_code", c) : c \in 1..MaxExitCode}

\* C10: when a terminal action is over with one of the listed outcomes, the
\* controller is at the loop of the menu that owns the action; and template
\* "2" with size Medium and IP 10.0.0.5, declined at the confirmation, ends in
\* the VM submenu with no invocation and the cancellation warning.
C10_ReturnsToOwner ==
    /\ [](( /\ pc = "render"
            /\ op # "none"
            /\ out # <<>>
            /\ Last(out) \in OutcomeMessages) => menu = OwningMenu(op))
    /\ [][( /\ pc = "confirm"
            /\ op = "deploy_vm_from_template"
            /\ req.template = <<"2">>
            /\ req.vm_size = SizeMedium
            /\ req.ip_address = <<"1","0",".","0",".","0",".","5">>
            /\ \E line \in DecliningAnswers : Confirm(line))
          => /\ menu' = "VMDeploy"
             /\ pc' = "render"
             /\ inv' = 0
             /\ Last(out') = Warn("cancelled")]_vars

C10_Witness ==
    /\ pc = "render"
    /\ menu = "VMDeploy"
    /\ op = "deploy_vm_from_template"
    /\ ~gate
    /\ inv = 0
    /\ out = <<Warn("cancelled")>>

C13_OneOutstandingInvocation ==
    /\ [](call # NoCall => (pc = "backend" /\ inv = 1 /\ op \in Ops))
    /\ [][/\ inv' > inv => (call = NoCall /\ pc # "backend")
          /\ call # NoCall
                => /\ call' \in {call, NoCall}
                   /\ op' = op
                   /\ menu' = menu
                   /\ inv' = inv
                   /\ rendered' = rendered
                   /\ call' = call => (pc' = pc /\ out' = out)]_vars

C13_Witness ==
    /\ pc = "backend"
    /\ op = "configure_vsan"
    /\ call = InlineCall("configure_vsan")
    /\ inv = 1

\* C14: an operator-selected action makes at most one backend invocation; the
\* step that returns a nonzero exit status reports it and makes no further
\* invocation, and none follows before the action is over.
C14_NoRetry ==
    /\ [](inv <= 1)
    /\ [][/\ \A code \in 1..MaxExitCode :
                BackendReturn(code)
                => (inv' = inv /\ call' = NoCall /\ pc' = "ack")
          /\ pc = "ack" => (inv' = inv /\ pc' # "backend" /\ call' = NoCall)]_vars

C14_Witness ==
    /\ pc = "ack"
    /\ op = "configure_vsan"
    /\ inv = 1
    /\ out = <<Msg("error", "failed_with_exit_code", 1)>>

\* C15: an interrupt at a prompt of an operation that has made no invocation
\* discards the request under construction, makes no invocation and leaves
\* config.json and the script directory as they were; and from the exit prompt
\* that follows, the action makes no invocation either.
C15_InterruptBeforeInvocation ==
    [][/\ (pc \in InputPrompts /\ op \in Ops /\ inv = 0 /\ Interrupt)
            => /\ inv' = 0
               /\ call' = NoCall
               /\ req' = EmptyReq
               /\ cfg' = NoCfg
               /\ cfgFile' = cfgFile
               /\ scripts' = scripts
               /\ pc' = "exitprompt"
               /\ Last(out') = Warn("cancelled_by_user")
       /\ (pc = "exitprompt" /\ inv = 0)
            => (inv' = 0 /\ call' = NoCall /\ pc' \in {"exitprompt", "render", "exited"})]_vars

C15_Witness ==
    /\ pc = "exitprompt"
    /\ op = "deploy_standard_vm"
    /\ ~gate
    /\ inv = 0
    /\ req = EmptyReq
    /\ Last(out) = Warn("cancelled_by_user")

\* C16: from the moment save_config(config) opens config.json, the file holds
\* either all of what it held before or all of the new text, never nothing or
\* a part (stated as in the claim; open(..., 'w') violates it).
C16_SaveAtomic ==
    config.state = "ok"
        => disk \in {before, OnDisk(TRUE, json_dump(config.doc))}

\* C17: when save_config() completes with the document load_config() returned
\* from the text the file then held, loading the file again returns that same
\* document, which is also what the file held before the save.
C17_RoundTrip ==
    [][(/\ save_close
        /\ loaded.state = "ok"
        /\ config = loaded
        /\ json_load(before) = loaded)
          => /\ json_load(disk') = loaded
             /\ json_load(disk') = json_load(before)]_vars

C17_Witness ==
    /\ spc = "idle"
    /\ loaded.state = "ok"
    /\ Len(loaded.doc) = 2
    /\ config = loaded
    /\ json_load(before) = loaded
    /\ disk = OnDisk(TRUE, json_dump(loaded.doc))
    /\ before # disk

\* the size spec the claim names
MediumSpec == [cpu |-> 4, memory_gb |-> 8, disk_gb |-> 100]

\* C18 as first stated: the line "2" at the size prompt resolves to 4 CPUs,
\* 8 GB of memory and a 100 GB disk (the size catalog is keyed by name, and
\* "2" is rejected).
C18_SelectorTwoResolves ==
    [][(pc = "vm_size" /\ SizeInput(<<"2">>))
          => /\ req'.vm_size \in DOMAIN VM_SIZES
             /\ VM_SIZES[req'.vm_size] = MediumSpec]_vars

\* C18, amended: the selector "Medium" resolves to exactly 4 CPUs, 8 GB of
\* memory and a 100 GB disk, which are the numbers the standard deployment
\* writes into its script; the line "2" at the size prompt is rejected as an
\* invalid size, with no invocation.
C18_MediumResolves ==
    /\ [](VM_SIZES[SizeMedium] = MediumSpec)
    /\ []((pc = "backend" /\ op = "deploy_standard_vm" /\ req.vm_size = SizeMedium)
            => Occurs(<<"4", " -MemoryGB ", "8", " -DiskGB ", "100">>, call.text))
    /\ []((pc = "backend" /\ op = "deploy_vm_from_template" /\ req.vm_size = SizeMedium)
            => Occurs(<<"Set-VM -VM $vm -NumCpu ", "4", " -MemoryGB ", "8">>, call.text))
    /\ [][(pc = "vm_size" /\ SizeInput(<<"2">>))
            => /\ Last(out') = Err("invalid_size")
               /\ req' = EmptyReq
               /\ inv' = 0
               /\ pc' = "render"]_vars

C18_Witness ==
    /\ pc = "backend"
    /\ op = "deploy_standard_vm"
    /\ req.vm_size = SizeMedium
    /\ Occurs(<<"4", " -MemoryGB ", "8", " -DiskGB ", "100">>, call.text)

\* the template identifier each selector stands for
TemplateOf(sel) ==
    CASE sel = <<"1">> -> "template-splunk-enterprise"
      [] sel = <<"2">> -> "template-cribl-stream"
      [] sel = <<"3">> -> "template-forescout"
      [] sel = <<"4">> -> "template-windows-2022"
      [] sel = <<"5">> -> "template-rhel9"
      [] sel = <<"6">> -> "template-ubuntu-2204"

TemplateSelectors == {<<"1">>, <<"2">>, <<"3">>, <<"4">>, <<"5">>, <<"6">>}

\* C19: a line at the template prompt that is one of "1".."6" (trimmed) is
\* taken as the selector, and the script of the invocation names the template
\* of that selector, template-splunk-enterprise for "1"; every other line
\* selects no template and makes no invocation, with the invalid-template
\* error unless it is the back token.
C19_TemplateResolves ==
    /\ []((pc = "backend" /\ op = "deploy_vm_from_template")
            => /\ req.template \in TemplateSelectors
               /\ Occurs(<<"$template = Get-Template -Name '", TemplateOf(req.template),
                           "' -ErrorAction Stop">>, call.text))
    /\ [][(pc = "prompt" /\ menu = "TemplateSelect")
            => \A line \in MenuAnswers :
                  TemplateInput(line)
                  => IF Upper(Strip(line)) \in TemplateSelectors
                     THEN req'.template = Strip(line) /\ pc' = "vm_name" /\ out' = out
                     ELSE /\ req'.template = <<>>
                          /\ inv' = 0
                          /\ call' = NoCall
                          /\ pc' \in {"ack", "render"}
                          /\ Upper(Strip(line)) # <<"B">>
                                => Last(out') = Err("invalid_template")]_vars

C19_Witness ==
    /\ pc = "backend"
    /\ op = "deploy_vm_from_template"
    /\ req.template = <<"1">>
    /\ Occurs(<<"$template = Get-Template -Name '", "template-splunk-enterprise",
                "' -ErrorAction Stop">>, call.text)

\* the menu tree
ParentOf(m) == IF m = "TemplateSelect" THEN "VMDeploy" ELSE "Main"

ChildrenOf(m) ==
    CASE m = "Main" -> {"Configure", "VMDeploy", "ConfigManagement"}
      [] m = "VMDeploy" -> {"TemplateSelect"}
      [] OTHER -> {}

\* C20: at a menu prompt the back token (trimmed, either case) leads from
\* Configure, VMDeploy and ConfigManagement to Main and from TemplateSelect to
\* VMDeploy, with no invocation; in Main the tokens "5", "6" and "C" lead to
\* Configure, VMDeploy and ConfigManagement; and no step taken on a token, nor
\* the operation it starts, moves the controller anywhere but to the parent of
\* its state, to the state itself or to one of its children.
C20_BackAndEnter ==
    [][/\ pc = "prompt"
            => \A line \in MenuAnswers :
                  (MenuInput(line) \/ TemplateInput(line))
                  => LET token == Upper(Strip(line))
                     IN  /\ (token = <<"B">> /\ menu # "Main")
                               => /\ menu' = ParentOf(menu)
                                  /\ pc' = "render"
                                  /\ inv' = 0
                                  /\ call' = NoCall
                         /\ (menu = "Main" /\ token = <<"5">>)
                               => (menu' = "Configure" /\ pc' = "render")
                         /\ (menu = "Main" /\ token = <<"6">>)
                               => (menu' = "VMDeploy" /\ pc' = "render")
                         /\ (menu = "Main" /\ token = <<"C">>)
                               => (menu' = "ConfigManagement" /\ pc' = "render")
       /\ (menu \in MenuStates /\ pc # "exitprompt")
            => menu' \in {menu, ParentOf(menu)} \cup ChildrenOf(menu)]_vars

C20_Witness ==
    /\ pc = "render"
    /\ menu = "VMDeploy"
    /\ op = "deploy_vm_from_template"
    /\ out = <<>>
    /\ inv = 0
    /\ inputsRead

\* the letter tokens as typed in upper and in lower case, between blanks
CasePairs ==
    {<<Blanks(l) \o <<c>> \o Blanks(r), Blanks(l) \o <<LowerChar(c)>> \o Blanks(r)>> :
        c \in {"B", "C", "S", "Q"}, l \in 0..MaxPad, r \in 0..MaxPad}

\* C21: at the prompt of every menu state, a letter token typed in upper case
\* and the same token typed in lower case lead to the same step: the same
\* action, transition, error or exit.
C21_TokensCaseInsensitive ==
    [][pc = "prompt"
          => \A p \in CasePairs :
                (MenuInput(p[1]) \/ TemplateInput(p[1]))
                <=> (MenuInput(p[2]) \/ TemplateInput(p[2]))]_vars

C21_Witness ==
    /\ pc = "render"
    /\ menu = "ConfigManagement"
    /\ op = "none"
    /\ out = <<>>
    /\ inputsRead

\* C22: an empty line at a prompt with a default is taken as the default: size
\* "Medium", subnet mask "255.255.255.0" and gateway "192.168.1.1" in the
\* template deployment, OS type "1" (the first catalog entry) and size "Small"
\* in the standard deployment; an empty line at a prompt without a default is
\* taken as the empty string (which the VM name prompt then rejects).
C22_EmptyAnswerTakesDefault ==
    [][/\ (pc = "vm_size" /\ SizeInput(<<>>))
            => req'.vm_size = IF op = "deploy_vm_from_template"
                              THEN <<"M","e","d","i","u","m">>
                              ELSE <<"S","m","a","l","l">>
       /\ (pc = "netmask" /\ NetmaskInput(<<>>))
            => req'.netmask = <<"2","5","5",".","2","5","5",".","2","5","5",".","0">>
       /\ (pc = "gateway" /\ GatewayInput(<<>>))
            => req'.gateway = <<"1","9","2",".","1","6","8",".","1",".","1">>
       /\ (pc = "os_choice" /\ OsInput(<<>>))
            => (req'.os_choice = <<"1">> /\ OS_TYPES[req'.os_choice].name = "RHEL")
       /\ (pc = "ip_address" /\ IpInput(<<>>))
            => (req'.ip_address = <<>> /\ pc' # "render")
       /\ (pc = "tag_name" /\ TagInput(<<>>))
            => (req'.tag_name = <<>> /\ pc' = "confirm")
       /\ (pc = "vm_name" /\ NameInput(<<>>))
            => (req'.vm_name = <<>> /\ Last(out') = Err("vm_name_required"))]_vars

C22_Witness ==
    /\ pc = "confirm"
    /\ op = "deploy_vm_from_template"
    /\ req.vm_size = <<"M","e","d","i","u","m">>
    /\ req.ip_address = <<>>
    /\ req.netmask = <<"2","5","5",".","2","5","5",".","2","5","5",".","0">>
    /\ req.gateway = <<"1","9","2",".","1","6","8",".","1",".","1">>
    /\ req.tag_name = <<>>

\* the keys of the size catalog
SizeNames ==
    {<<"S","m","a","l","l">>, <<"M","e","d","i","u","m">>, <<"L","a","r","g","e">>,
     <<"X","L","a","r","g","e">>}

\* the value the size prompt hands to the lookup: the line without the blanks
\* around it, or the default of the prompt when nothing else was typed
SizeValue(line) ==
    IF Strip(line) # <<>> THEN Strip(line)
    ELSE IF op = "deploy_vm_from_template" THEN <<"M","e","d","i","u","m">>
    ELSE <<"S","m","a","l","l">>

\* C23: the size answer resolves only when it equals "Small", "Medium", "Large"
\* or "XLarge" character for character; every other answer, "medium" and
\* "MEDIUM" among them, ends the operation with the invalid-size error, the
\* request discarded and no backend invocation.
C23_SizeExactMatch ==
    [][pc = "vm_size"
          => \A line \in SizeAnswers :
                SizeInput(line)
                => IF SizeValue(line) \in SizeNames
                   THEN /\ req'.vm_size = SizeValue(line)
                        /\ pc' = "ip_address"
                        /\ out' = out
                   ELSE /\ out' = <<Err("invalid_size")>>
                        /\ req' = EmptyReq
                        /\ inv' = 0
                        /\ call' = NoCall
                        /\ pc' = "render"]_vars

C23_Witness ==
    /\ pc = "render"
    /\ menu = "VMDeploy"
    /\ op = "deploy_standard_vm"
    /\ out = <<Err("invalid_size")>>
    /\ inv = 0
    /\ req = EmptyReq

\* C24: when a gated operation that showed a summary of the document starts
\* its invocation, the document the invocation works with is the one that was
\* shown (stated as in the claim; the scripts read config.json again and the
\* code violates it).
C24_ConfirmedIsExecuted ==
    [][(pc = "confirm" /\ pc' = "backend" /\ op \in GatedOps /\ LoadsOnEntry(op))
          => BackendConfig(call', cfgFile', cfg') = cfg]_vars

\* the fields the operator supplies to a VM deployment
SuppliedFields(o) ==
    IF o = "deploy_vm_from_template"
    THEN {"vm_name", "tag_name", "ip_address", "netmask", "gateway"}
    ELSE {"vm_name", "tag_name", "ip_address"}

\* C25: the script of a VM deployment's invocation holds every field the
\* operator supplied and the three numbers of the resolved size (stated as in
\* the claim; the scripts leave the network fields out and the code violates it).
C25_AllFieldsCarried ==
    (pc = "backend" /\ op \in VMOps)
        => /\ \A f \in SuppliedFields(op) : Occurs(req[f], call.text)
           /\ \A n \in {"cpu", "memory_gb", "disk_gb"} :
                 Occurs(<<ToString(VM_SIZES[req.vm_size][n])>>, call.text)

\* the notice of the configuration menu's edit options
NotImplementedNotice == <<Warn("not_implemented"), Info("edit_config_json")>>

\* C26: no step of the console writes config.json: the file changes only when
\* another process edits it, and save_config() is never started; the options
\* "2".."6" of the configuration menu print the not-implemented notice and
\* wait for Enter, with the document, the menu state and the invocation count
\* as they were, and Enter leads back to the configuration menu.
C26_ConsoleNeverWrites ==
    [][/\ cfgFile' # cfgFile => \E f \in CfgFiles : ExternalEdit(f)
       /\ (spc' = "idle" /\ disk' = disk /\ config' = NoLoad)
       /\ (pc = "prompt" /\ menu = "ConfigManagement")
            => \A t \in {"2", "3", "4", "5", "6"} :
                  MenuInput(<<t>>)
                  => /\ out' = NotImplementedNotice
                     /\ pc' = "ack"
                     /\ op' = "none"
                     /\ menu' = "ConfigManagement"
                     /\ cfgFile' = cfgFile
                     /\ inv' = 0
                     /\ call' = NoCall
       /\ (pc = "ack" /\ out = NotImplementedNotice /\ pc' = "render")
            => (menu' = "ConfigManagement" /\ cfgFile' = cfgFile /\ inv' = 0)]_vars

C26_Witness ==
    /\ pc = "ack"
    /\ menu = "ConfigManagement"
    /\ op = "none"
    /\ out = NotImplementedNotice
    /\ inv = 0
    /\ call = NoCall

\* C27: a script-file-mode operation starts its invocation only when its
\* script file exists (stated as in the claim; configure_all() makes no such
\* check and the code violates it).
C27_ScriptChecked ==
    (op \in FileModeOps /\ (pc = "backend" \/ inv > 0))
        => ScriptOf(op) \in scripts

\* C28: an answer other than yes at the exit prompt leads back to the menu
\* state in which the interrupt arrived, and an interrupt at the exit prompt
\* does not end the process (stated as in the claim; the handler of main()
\* violates both).
C28_InterruptKeepsMenu ==
    [][/\ (pc = "exitprompt" /\ pc' = "render") => menu' = menu
       /\ pc = "exitprompt" => exitKind' # "KeyboardInterrupt"]_vars

====
